---- MODULE Spec2Model ----
(***************************************************************************)
(* A model of bin/CircStat.py: the circular difference cdiff, the circular *)
(* statistics circ_r / circ_std, and the kernel density estimator CircKde  *)
(* (construction, set_bandwidth, _compute_covariance, evaluate).           *)
(*                                                                         *)
(* Arithmetic is exact.  Angles and data values lie on a grid of quarter   *)
(* turns, so that sines and cosines are integers; numpy's pi is `pi` grid  *)
(* units.  Values that are not rational (the logarithm in circ_std, the    *)
(* exponential of an energy, the square root in the normalisation) are     *)
(* carried as terms: two such values are equal iff their terms are.        *)
(* numpy arrays are records [shape, flat] with the elements in row-major   *)
(* order.  An attribute of the instance exists (hasattr) iff its name is   *)
(* in self.has.                                                            *)
(***************************************************************************)
EXTENDS Integers, Sequences, FiniteSets, Bags, TLC

VARIABLES self, phase, last, ang

vars == <<self, phase, last, ang>>

\* numpy's pi: a quarter turn is one grid unit
pi == 2

\* the longest 1-d dataset and the longest 1-d batch of query points
MaxN == 2
MaxM == 2
\* cdiff is called on the angles -MaxAngle .. MaxAngle
MaxAngle == 5

\* the values of the elements of 1-d datasets and batches
Values == {0, 3}

-----------------------------------------------------------------------------
(* Rationals <<num, den>> in lowest terms, den > 0.                        *)

Abs(x) == IF x < 0 THEN -x ELSE x

RECURSIVE Gcd(_, _)
Gcd(a, b) == IF b = 0 THEN a ELSE Gcd(b, a % b)

Rat(num, den) ==
    LET g == Gcd(Abs(num), Abs(den))
        s == IF den < 0 THEN -1 ELSE 1
    IN  <<(s * num) \div g, (s * den) \div g>>

(* Scalars as numpy holds them.  kind "real" is c * L^pow, where c is a    *)
(* rational and L = -ln(r2) for the squared resultant length r2 in (0,1):  *)
(* pow = 0 is a plain rational, pow = 1 a circular variance, pow = -1 its  *)
(* inverse.  kind "inf" and "nan" are the IEEE values.                     *)
Real(c, r2, pow) == [kind |-> "real", c |-> c, r2 |-> r2, pow |-> pow]
Rational(num, den) == Real(Rat(num, den), <<1, 1>>, 0)
Zero == Rational(0, 1)
Inf == [kind |-> "inf", c |-> <<0, 1>>, r2 |-> <<1, 1>>, pow |-> 0]
NaN == [kind |-> "nan", c |-> <<0, 1>>, r2 |-> <<1, 1>>, pow |-> 0]

\* x > 0 as Python evaluates it (False for nan)
IsPositive(x) == \/ x.kind = "inf"
                 \/ x.kind = "real" /\ x.c[1] > 0

\* x * k and x / k for an integer k > 0
Times(x, k) == IF x.kind = "real" THEN [x EXCEPT !.c = Rat(x.c[1] * k, x.c[2])] ELSE x
Over(x, k) == IF x.kind = "real" THEN [x EXCEPT !.c = Rat(x.c[1], x.c[2] * k)] ELSE x

\* 1 / x for x > 0
Reciprocal(x) == IF x.kind = "inf" THEN Zero
                 ELSE [x EXCEPT !.c = Rat(x.c[2], x.c[1]), !.pow = -x.pow]

isnan(x) == x.kind = "nan"

-----------------------------------------------------------------------------
(* numpy arrays                                                            *)

Array(shape, flat) == [shape |-> shape, flat |-> flat]

RECURSIVE Product(_)
Product(s) == IF s = <<>> THEN 1 ELSE Head(s) * Product(Tail(s))

size(a) == Product(a.shape)

atleast_2d(a) ==
    IF Len(a.shape) = 0 THEN Array(<<1, 1>>, a.flat)
    ELSE IF Len(a.shape) = 1 THEN Array(<<1, a.shape[1]>>, a.flat)
    ELSE a

reshape(a, shape) == Array(shape, a.flat)

\* a[r, c] of a 2-d array, r and c counted from 0
At(a, r, c) == a.flat[r * a.shape[2] + c + 1]

RECURSIVE SumSeq(_)
SumSeq(s) == IF s = <<>> THEN 0 ELSE Head(s) + SumSeq(Tail(s))

-----------------------------------------------------------------------------
(* Circular statistics                                                     *)

cos(a) == LET q == a % (2 * pi)
          IN  IF q = 0 THEN 1 ELSE IF q = pi THEN -1 ELSE 0

sin(a) == LET q == a % (2 * pi)
          IN  IF q = pi \div 2 THEN 1 ELSE IF q = pi + pi \div 2 THEN -1 ELSE 0

\* np.exp(1j * alpha) as <<re, im>>
exp_i(alpha) == <<cos(alpha), sin(alpha)>>

\* z / w for complex z, w, w a unit
cdiv(z, w) ==
    LET den == w[1] * w[1] + w[2] * w[2]
    IN  <<(z[1] * w[1] + z[2] * w[2]) \div den, (z[2] * w[1] - z[1] * w[2]) \div den>>

\* np.angle of a unit on an axis: the argument in (-pi, pi]
angle(z) ==
    IF z[2] = 0 THEN (IF z[1] > 0 THEN 0 ELSE pi)
    ELSE IF z[2] > 0 THEN pi \div 2 ELSE -(pi \div 2)

\* plain subtraction in place of the phase of the quotient
cdiff_subtracting(alpha, beta) == alpha - beta

cdiff(alpha, beta) == angle(cdiv(exp_i(alpha), exp_i(beta)))

\* the squared mean resultant length of the angles of the sequence alpha
\* (circ_r returns its square root)
circ_r(alpha) ==
    LET N == Len(alpha)
        S == SumSeq([i \in 1..N |-> sin(alpha[i])])
        C == SumSeq([i \in 1..N |-> cos(alpha[i])])
    IN  Rat(S * S + C * C, N * N)

\* the square of circ_std: -2 ln r = -ln r^2
circ_std(alpha) ==
    LET r2 == circ_r(alpha)
    IN  IF r2[1] = 0 THEN Inf
        ELSE IF r2[1] = r2[2] THEN Zero
        ELSE Real(<<1, 1>>, r2, 1)

-----------------------------------------------------------------------------
(* Python values passed to the constructor and to set_bandwidth            *)

None == [kind |-> "None", val |-> 0]
Num(v) == [kind |-> "num", val |-> v]
Str == [kind |-> "str", val |-> 0]
List == [kind |-> "list", val |-> 0]

\* np.isscalar: numbers and strings are scalars, None and sequences are not
isscalar(x) == x.kind \in {"num", "str"}

BwMethods == {None, Str, Num(1), Num(2)}
Modularities == {None, List, Num(0), Num(-2 * pi), Num(2 * pi), Num(pi)}

-----------------------------------------------------------------------------
(* The CircKde instance                                                    *)

scotts_factor == [kind |-> "scotts_factor", bw |-> None]
Lambda(bw_method) == [kind |-> "lambda", bw |-> bw_method]

\* the object before __init__ has assigned anything; covariance_factor is
\* the class attribute
Blank ==
    [has |-> {},
     dataset |-> Array(<<1, 0>>, <<>>),
     d |-> 0,
     n |-> 0,
     covariance_factor |-> scotts_factor,
     modular |-> FALSE,
     modularity_factor |-> 0,
     factor |-> None,
     _data_covariance |-> NaN,
     _data_inv_cov |-> NaN,
     covariance |-> NaN,
     inv_cov |-> NaN,
     _norm_factor |-> NaN]

\* self.name = value
Set(k, name, value) == [k EXCEPT ![name] = value, !.has = @ \cup {name}]

hasattr(k, name) == name \in k.has

Raised(k, exc) == [obj |-> k, exc |-> exc]
Returned(k) == [obj |-> k, exc |-> ""]

\* row r of a 2-d array, r counted from 0
Row(a, r) == [c \in 1..a.shape[2] |-> At(a, r, c - 1)]

\* np.cov(dataset, rowvar=1, bias=False): entry (a, b) is
\* sum((x_a - mean_a) * (x_b - mean_b)) / (n - 1)
CovEntry(a, r1, r2) ==
    LET n == a.shape[2]
        x == Row(a, r1)
        y == Row(a, r2)
        sxy == SumSeq([i \in 1..n |-> x[i] * y[i]])
    IN  IF n = 1 THEN NaN
        ELSE Rational(n * sxy - SumSeq(x) * SumSeq(y), n * (n - 1))

\* atleast_2d(np.cov(...)): a 1 x 1 array is carried as its element
np_cov(a) ==
    LET d == a.shape[1]
    IN  IF d = 1 THEN CovEntry(a, 0, 0)
        ELSE [kind |-> "matrix",
              entries |-> [e \in 1..(d * d) |-> CovEntry(a, (e - 1) \div d, (e - 1) % d)]]

\* atleast_2d((circ_std(modularity_factor * dataset) / modularity_factor)**2)
circ_cov(a, modularity_factor) ==
    Over(circ_std([i \in 1..Len(a.flat) |-> modularity_factor * a.flat[i]]),
         modularity_factor * modularity_factor)

\* sqrt(linalg.det(2*pi*covariance)) * n, as a term
norm_factor(covariance, n) == [kind |-> "norm", covariance |-> covariance, n |-> n]

\* self.covariance_factor()
call_covariance_factor(k) ==
    IF k.covariance_factor.kind = "lambda" THEN k.covariance_factor.bw
    ELSE [kind |-> "scott", val |-> 0]

\* line 319: linalg.det checks that its argument is finite
compute_norm_factor(k) ==
    IF k.covariance.kind \in {"inf", "nan"}
    THEN Raised(k, "ValueError: array must not contain infs or NaNs")
    ELSE Returned(Set(k, "_norm_factor", norm_factor(k.covariance, k.n)))

\* lines 317-318: self.factor**2 is defined for a number only
compute_kernel_covariance(k) ==
    IF k.factor.kind # "num" THEN Raised(k, "TypeError: unsupported operand for **")
    ELSE compute_norm_factor(
             Set(Set(k, "covariance", Times(k._data_covariance, k.factor.val * k.factor.val)),
                 "inv_cov", Over(k._data_inv_cov, k.factor.val * k.factor.val)))

\* line 314: `1/cov if cov > 0 else nan` has no truth value for an array of
\* more than one element
compute_data_inv_cov(k) ==
    IF k._data_covariance.kind = "matrix"
    THEN Raised(k, "ValueError: truth value of an array is ambiguous")
    ELSE compute_kernel_covariance(
             Set(k, "_data_inv_cov",
                 IF IsPositive(k._data_covariance) THEN Reciprocal(k._data_covariance)
                 ELSE NaN))

\* lines 306-312: the data covariance is computed unless _data_inv_cov exists
compute_data_covariance(k) ==
    IF hasattr(k, "_data_inv_cov") THEN compute_kernel_covariance(k)
    ELSE IF ~k.modular
    THEN compute_data_inv_cov(Set(k, "_data_covariance", np_cov(k.dataset)))
    ELSE compute_data_inv_cov(
             Set(k, "_data_covariance", circ_cov(k.dataset, k.modularity_factor)))

_compute_covariance(k) == compute_data_covariance(Set(k, "factor", call_covariance_factor(k)))

\* 2*np.pi/modularity for a number modularity # 0, in grid units per unit
two_pi_over(modularity) ==
    (IF modularity < 0 THEN -1 ELSE 1) * ((2 * pi) \div Abs(modularity))

set_modularity(k, modularity) ==
    IF modularity = None THEN Returned(Set(k, "modular", FALSE))
    ELSE IF isscalar(modularity) THEN
        LET k1 == Set(k, "modular", TRUE)
        IN  IF modularity.val = 0 THEN Raised(k1, "ZeroDivisionError")
            ELSE Returned(Set(k1, "modularity_factor", two_pi_over(modularity.val)))
    ELSE Raised(k, "ValueError: modularity should be None or a scalar")

set_bandwidth_of(k, bw_method, modularity) ==
    IF ~isscalar(bw_method) THEN Raised(k, "ValueError: bw_method should be a scalar")
    ELSE LET k1 == Set(k, "covariance_factor", Lambda(bw_method))
             r == set_modularity(k1, modularity)
         IN  IF r.exc # "" THEN r ELSE _compute_covariance(r.obj)

-----------------------------------------------------------------------------
(* evaluate                                                                *)

\* a / b for b # 0 dividing a
Quot(a, b) == ((IF b < 0 THEN -1 ELSE 1) * a) \div Abs(b)

\* cdiff(modularity_factor * x, modularity_factor * p) / modularity_factor
circular_diff(k, x, p) ==
    Quot(cdiff(k.modularity_factor * x, k.modularity_factor * p), k.modularity_factor)

\* diff of data value x and query value p in the loop over the data:
\* line 214 in linear mode, line 229 in modular mode
diff_over_data(k, x, p) == IF ~k.modular THEN x - p ELSE circular_diff(k, x, p)

\* the loop over the query points left unadapted to modular mode
diff_over_points_linear(k, x, p) == x - p

\* the same in the loop over the query points: line 221 and line 236
diff_over_points(k, x, p) == IF ~k.modular THEN x - p ELSE circular_diff(k, x, p)

\* tdiff = dot(inv_cov, diff); energy = sum(diff * tdiff, axis=0) / 2.0, for
\* one column of a 1-row diff, as a term
energy_of(k, diff) == [sq |-> diff * diff, inv_cov |-> k.inv_cov]

\* a density is the sum of exp(-energy) over the bag `terms`, divided by
\* `over`; zeros(m) holds m densities 0.0
Undivided == [kind |-> "one"]
zeros(m) == [j \in 1..m |-> [terms |-> EmptyBag, over |-> Undivided]]

\* value + exp(-energy)
plus_exp(value, energy) == [value EXCEPT !.terms = @ (+) SetToBag({energy})]

\* for i in range(self.n): result = result + exp(-energy)
RECURSIVE loop_over_data(_, _, _, _)
loop_over_data(k, points, i, result) ==
    IF i >= k.n THEN result
    ELSE loop_over_data(k, points, i + 1,
             [j \in 1..Len(result) |->
                 plus_exp(result[j],
                          energy_of(k, diff_over_data(k, At(k.dataset, 0, i),
                                                      At(points, 0, j - 1))))])

\* sum(exp(-energy), axis=0) over the columns c .. n-1 of the dataset
RECURSIVE sum_exp(_, _, _)
sum_exp(k, p, c) ==
    IF c >= k.n THEN [terms |-> EmptyBag, over |-> Undivided]
    ELSE plus_exp(sum_exp(k, p, c + 1),
                  energy_of(k, diff_over_points(k, At(k.dataset, 0, c), p)))

\* for i in range(m): result[i] = sum(exp(-energy), axis=0)
RECURSIVE loop_over_points(_, _, _, _)
loop_over_points(k, points, i, result) ==
    IF i >= Len(result) THEN result
    ELSE loop_over_points(k, points, i + 1,
             [result EXCEPT ![i + 1] = sum_exp(k, At(points, 0, i), 0)])

\* result / self._norm_factor
divide(result, norm) == [j \in 1..Len(result) |-> [result[j] EXCEPT !.over = norm]]

\* the row-vector test without `d == 1`
is_row_vector_any_d(k, d, m) == m = k.d

\* `d == 1 and m == self.d`: points was passed in as a row vector
is_row_vector(k, d, m) == d = 1 /\ m = k.d

evaluate_of(k, points) ==
    LET p0 == atleast_2d(points)
        d == p0.shape[1]
        row_vector == d # k.d /\ is_row_vector(k, d, p0.shape[2])
        p == IF row_vector THEN reshape(p0, <<k.d, 1>>) ELSE p0
        m == p.shape[2]
        \* the first pass of a loop reads self.modularity_factor in modular
        \* mode, then takes dot(inv_cov, diff) of the 1 x 1 inv_cov with a
        \* d-row diff
        iterations == IF m >= k.n THEN k.n ELSE m
        summed == IF m >= k.n THEN loop_over_data(k, p, 0, zeros(m))
                  ELSE loop_over_points(k, p, 0, zeros(m))
    IN  IF d # k.d /\ ~row_vector
        THEN [exc |-> "ValueError: points have dimension", result |-> <<>>]
        ELSE IF isnan(k.inv_cov) THEN [exc |-> "", result |-> zeros(m)]
        ELSE IF iterations > 0 /\ k.modular /\ ~hasattr(k, "modularity_factor")
        THEN [exc |-> "AttributeError: modularity_factor", result |-> <<>>]
        ELSE IF iterations > 0 /\ k.d # 1
        THEN [exc |-> "ValueError: shapes not aligned", result |-> <<>>]
        ELSE [exc |-> "", result |-> divide(summed, k._norm_factor)]

-----------------------------------------------------------------------------
(* Inputs                                                                  *)

Vectors(len) == UNION {{Array(<<n>>, f) : f \in [1..n -> Values]} : n \in 0..len}

Datasets ==
    {Array(<<>>, <<v>>) : v \in Values} \cup Vectors(MaxN) \cup
    {Array(<<2, 1>>, <<0, 1>>),
     Array(<<2, 2>>, <<0, 0, 0, 0>>), Array(<<2, 2>>, <<0, 1, 0, 3>>)}

PointBatches ==
    Vectors(MaxM) \cup
    {Array(<<2, 0>>, <<>>), Array(<<2, 1>>, <<0, 3>>), Array(<<2, 2>>, <<0, 1, 3, 0>>),
     Array(<<3, 1>>, <<0, 1, 3>>)}

-----------------------------------------------------------------------------
(* The state machine.  `last` is the last call: its modularity or points   *)
(* argument (the dataset, for the constructor) and what it raised or       *)
(* returned.                                                               *)

Call(op, modularity, points, exc, result) ==
    [op |-> op, modularity |-> modularity, points |-> points, exc |-> exc,
     result |-> result]

NoPoints == Array(<<0>>, <<>>)
NoAngles == [called |-> FALSE, alpha |-> 0, beta |-> 0, ab |-> 0, ba |-> 0, aa |-> 0]

Init ==
    /\ self = Blank
    /\ phase = "new"
    /\ last = Call("none", None, NoPoints, "", <<>>)
    /\ ang = NoAngles

\* the size check as `size > 0`
init_of_nonempty(k, dataset, bw_method, modularity) ==
    LET k0 == Set(k, "dataset", atleast_2d(dataset))
        k1 == Set(Set(k0, "d", k0.dataset.shape[1]), "n", k0.dataset.shape[2])
    IN  IF ~(size(k0.dataset) > 0)
        THEN Raised(k0, "ValueError: dataset should have multiple elements")
        ELSE set_bandwidth_of(k1, bw_method, modularity)

\* the body of CircKde.__init__ on the new object k
init_of(k, dataset, bw_method, modularity) ==
    LET k0 == Set(k, "dataset", atleast_2d(dataset))
        k1 == Set(Set(k0, "d", k0.dataset.shape[1]), "n", k0.dataset.shape[2])
    IN  IF ~(size(k0.dataset) > 1)
        THEN Raised(k0, "ValueError: dataset should have multiple elements")
        ELSE set_bandwidth_of(k1, bw_method, modularity)

\* CircKde(dataset, bw_method, modularity)
__init__(dataset, bw_method, modularity) ==
    /\ phase = "new"
    /\ \E r \in {init_of(self, dataset, bw_method, modularity)} :
           /\ self' = r.obj
           /\ phase' = IF r.exc = "" THEN "alive" ELSE "failed"
           /\ last' = Call("__init__", modularity, dataset, r.exc, <<>>)
    /\ UNCHANGED ang

\* kde.set_bandwidth(bw_method, modularity)
set_bandwidth(bw_method, modularity) ==
    /\ phase = "alive"
    /\ \E r \in {set_bandwidth_of(self, bw_method, modularity)} :
           /\ self' = r.obj
           /\ last' = Call("set_bandwidth", modularity, NoPoints, r.exc, <<>>)
    /\ UNCHANGED <<phase, ang>>

\* evaluate unpacking the shape of points into self.d
evaluate_storing_d(points) ==
    /\ phase = "alive"
    /\ \E r \in {evaluate_of(self, points)} :
           last' = Call("evaluate", None, points, r.exc, r.result)
    /\ self' = Set(self, "d", atleast_2d(points).shape[1])
    /\ UNCHANGED <<phase, ang>>

\* kde.evaluate(points), kde(points)
evaluate(points) ==
    /\ phase = "alive"
    /\ \E r \in {evaluate_of(self, points)} :
           last' = Call("evaluate", None, points, r.exc, r.result)
    /\ UNCHANGED <<self, phase, ang>>

Next ==
    \/ \E dataset \in Datasets, bw_method \in BwMethods, modularity \in Modularities :
           __init__(dataset, bw_method, modularity)
    \/ \E bw_method \in BwMethods, modularity \in Modularities :
           set_bandwidth(bw_method, modularity)
    \/ \E points \in PointBatches : evaluate(points)

Spec == Init /\ [][Next]_vars

\* cdiff on its own: both orders of a pair of angles, and an angle with itself
cdiff_call(alpha, beta) ==
    /\ ang' = [called |-> TRUE, alpha |-> alpha, beta |-> beta,
               ab |-> cdiff(alpha, beta), ba |-> cdiff(beta, alpha),
               aa |-> cdiff(alpha, alpha)]
    /\ UNCHANGED <<self, phase, last>>

NextCdiff == \E alpha \in -MaxAngle..MaxAngle, beta \in -MaxAngle..MaxAngle :
                 cdiff_call(alpha, beta)

SpecCdiff == Init /\ [][NextCdiff]_vars

-----------------------------------------------------------------------------
(* Properties                                                              *)

KdeCall == last.op \in {"__init__", "set_bandwidth"}
InvalidInput == {"ValueError: dataset should have multiple elements",
                 "ValueError: bw_method should be a scalar",
                 "ValueError: modularity should be None or a scalar"}
DimensionMismatch == "ValueError: points have dimension"

\* the data covariance of the dataset under the instance's current mode
CurrentDataCovariance(k) ==
    IF ~k.modular THEN np_cov(k.dataset) ELSE circ_cov(k.dataset, k.modularity_factor)
CurrentDataInvCov(k) ==
    IF IsPositive(CurrentDataCovariance(k)) THEN Reciprocal(CurrentDataCovariance(k)) ELSE NaN

\* C1: after every successful construction or set_bandwidth call the cached
\* data covariance and inverse covariance, and covariance, inv_cov and
\* _norm_factor derived from them, are the values computed from the dataset
\* under the current factor, mode and modularity factor.
C1_CacheIsCurrent ==
    (phase = "alive" /\ KdeCall /\ last.exc = "") =>
        /\ self._data_covariance = CurrentDataCovariance(self)
        /\ self._data_inv_cov = CurrentDataInvCov(self)
        /\ self.factor = self.covariance_factor.bw
        /\ self.covariance =
               Times(CurrentDataCovariance(self), self.factor.val * self.factor.val)
        /\ self.inv_cov =
               Over(CurrentDataInvCov(self), self.factor.val * self.factor.val)
        /\ self._norm_factor = norm_factor(self.covariance, self.n)

\* C2: a call of evaluate, returning densities or raising, leaves every
\* attribute of the instance as it was.
C2_EvaluateIsReadOnly ==
    [][(phase = "alive" /\ last'.op = "evaluate") => (self' = self /\ phase' = phase)]_vars

C2_Witness ==
    /\ last.op = "evaluate"
    /\ last.exc = ""
    /\ ~isnan(self.inv_cov)
    /\ Len(last.result) > 0

\* C3: construction from a dataset of fewer than 2 elements raises the
\* ValueError of the size check with nothing but self.dataset assigned; a
\* dataset of 2 or more elements passes the check and gets d and n.
C3_SmallDatasetRejected ==
    last.op = "__init__" =>
        IF size(atleast_2d(last.points)) < 2
        THEN /\ last.exc = "ValueError: dataset should have multiple elements"
             /\ phase = "failed"
             /\ self = Set(Blank, "dataset", atleast_2d(last.points))
        ELSE /\ last.exc # "ValueError: dataset should have multiple elements"
             /\ {"dataset", "d", "n"} \subseteq self.has
             /\ <<self.d, self.n>> = atleast_2d(last.points).shape

C3_Witness ==
    /\ last.op = "__init__"
    /\ size(atleast_2d(last.points)) = 1
    /\ phase = "failed"

\* C4: evaluate on a batch of shape (dq, m): with dq = d the batch is m
\* points; with dq # d, dq = 1 and m = d it is one point; otherwise the call
\* raises the dimension error and returns nothing.  A call that returns,
\* returns one density per point.
C4_QueryShape ==
    (phase = "alive" /\ last.op = "evaluate") =>
        LET dq == atleast_2d(last.points).shape[1]
            m == atleast_2d(last.points).shape[2]
        IN  IF dq = self.d
            THEN last.exc # DimensionMismatch /\ (last.exc = "" => Len(last.result) = m)
            ELSE IF dq = 1 /\ m = self.d
            THEN last.exc # DimensionMismatch /\ (last.exc = "" => Len(last.result) = 1)
            ELSE last.exc = DimensionMismatch /\ last.result = <<>>

C4_Witness ==
    /\ phase = "alive"
    /\ last.op = "evaluate"
    /\ self.d = 2
    /\ atleast_2d(last.points).shape = <<1, 2>>
    /\ last.exc = ""
    /\ Len(last.result) = 1

\* C5: a modularity period that is passed must be a positive scalar: None
\* gives linear mode, a positive scalar gives modular mode with
\* modularity_factor = 2*pi/period, and a zero, negative or non-scalar
\* period is rejected with an invalid-input error.
C5_PeriodIsValidated ==
    (KdeCall /\ last.exc \notin {"ValueError: dataset should have multiple elements",
                                 "ValueError: bw_method should be a scalar"}) =>
        /\ (last.modularity = None /\ last.exc = "") => ~self.modular
        /\ (last.modularity.kind = "num" /\ last.modularity.val > 0 /\ last.exc = "") =>
               /\ self.modular
               /\ self.modularity_factor = two_pi_over(last.modularity.val)
        /\ (last.modularity = List \/ (last.modularity.kind = "num" /\ last.modularity.val <= 0)) =>
               last.exc \in InvalidInput

\* every observation of the dataset is the same point
AllPointsIdentical(a) ==
    \A r \in 0..(a.shape[1] - 1), c \in 0..(a.shape[2] - 1) : At(a, r, c) = At(a, r, 0)

\* C6: for a dataset of identical points, construction with a numeric
\* bandwidth and a valid period succeeds and stores NaN as inverse
\* covariance; evaluate on a dimension-compatible batch of m points then
\* returns m zeros and raises nothing.
C6_DegenerateDataset ==
    /\ (/\ last.op = "__init__"
        /\ self.covariance_factor.bw.kind = "num"
        /\ last.modularity = None \/ (last.modularity.kind = "num" /\ last.modularity.val > 0)
        /\ atleast_2d(last.points).shape[2] >= 2
        /\ AllPointsIdentical(atleast_2d(last.points)))
       => (last.exc = "" /\ phase = "alive" /\ isnan(self._data_inv_cov))
    /\ (/\ phase = "alive"
        /\ last.op = "evaluate"
        /\ isnan(self.inv_cov)
        /\ last.exc # DimensionMismatch)
       => LET a == atleast_2d(last.points)
          IN  /\ last.exc = ""
              /\ last.result = zeros(IF a.shape[1] = self.d THEN a.shape[2] ELSE 1)

\* the squared distance of x and p on a circle of the given period
NearestSq(x, p, period) ==
    LET w == (x - p) % period
    IN  IF 2 * w > period THEN (period - w) * (period - w) ELSE w * w

\* the bag of kernel energies of query value p against every data point
PairEnergies(k, p) ==
    LET sq(i) == IF k.modular
                 THEN NearestSq(At(k.dataset, 0, i), p, (2 * pi) \div Abs(k.modularity_factor))
                 ELSE (At(k.dataset, 0, i) - p) * (At(k.dataset, 0, i) - p)
        e(i) == [sq |-> sq(i), inv_cov |-> k.inv_cov]
    IN  [x \in {e(i) : i \in 0..(k.n - 1)} |-> Cardinality({i \in 0..(k.n - 1) : e(i) = x})]

\* C7: whichever loop evaluate takes, the loop over the data and the loop
\* over the query points give the same result, in linear and in modular
\* mode: entry j is the sum over all data points i of the kernel term of
\* the pair (i, j), divided by the normalization constant.
C7_LoopsAgree ==
    (phase = "alive" /\ last.op = "evaluate" /\ last.exc = "" /\ ~isnan(self.inv_cov)) =>
        LET p0 == atleast_2d(last.points)
            m == p0.shape[2]
        IN  /\ Len(last.result) = m
            /\ m > 0 =>
                 /\ loop_over_data(self, p0, 0, zeros(m)) = loop_over_points(self, p0, 0, zeros(m))
                 /\ last.result = divide(loop_over_data(self, p0, 0, zeros(m)), self._norm_factor)
                 /\ \A j \in 1..m :
                        /\ last.result[j].terms = PairEnergies(self, At(p0, 0, j - 1))
                        /\ last.result[j].over = self._norm_factor

C7_Witness ==
    /\ phase = "alive"
    /\ last.op = "evaluate"
    /\ last.exc = ""
    /\ ~isnan(self.inv_cov)
    /\ self.modular
    /\ atleast_2d(last.points).shape[2] = 1
    /\ self.n > 1
    /\ \E i \in 0..(self.n - 1) :
           LET x == At(self.dataset, 0, i)
               p == At(atleast_2d(last.points), 0, 0)
           IN  (x - p) * (x - p) # circular_diff(self, x, p) * circular_diff(self, x, p)

Antipodal(alpha, beta) == (alpha - beta) % (2 * pi) = pi

C9_LinearFactorIsOne ==
    (phase = "alive" /\ ~self.modular) =>
        (hasattr(self, "modularity_factor") /\ self.modularity_factor = 1)

\* C10: a set_bandwidth call that raises leaves the instance as it was.
C10_FailedCallChangesNothing ==
    [][(phase = "alive" /\ last'.op = "set_bandwidth" /\ last'.exc # "") => self' = self]_vars

====
